---- MODULE Spec2Model ----
(***************************************************************************)
(* A model of the rusticle library: Complex numbers, ComplexVector and     *)
(* Matrix<Complex> (src/src/complex, src/src/linalg).                      *)
(*                                                                         *)
(* The library is a set of value types.  The model runs it as a caller     *)
(* would: the state holds the values the caller owns (one matrix, one      *)
(* vector), the record of the last call, and each action is one call of    *)
(* the library, translated from its code.  A Rust panic (assert_eq!, an    *)
(* index out of range) is the outcome Panic: the call returns no value     *)
(* and the caller's values stay as they were.                              *)
(*                                                                         *)
(* Under Spec and in the Complex calls of SpecScalar the components are    *)
(* integers: every value computed there is exactly representable in f64,   *)
(* where f64 arithmetic is exact.  Where the f64 behaviour itself matters  *)
(* the values are f64 values: decimals with overflow, underflow, infinity  *)
(* and NaN under SpecText (parsing, rendering) and SpecFloat (norm,        *)
(* normalize, is_unitary), binary values rounded to 53 bits for Angle.     *)
(* SpecExample runs the statements of the example driver                   *)
(* (src/examples/matrix.rs) one after the other.                           *)
(***************************************************************************)
EXTENDS Integers, Sequences, FiniteSets, TLC

VARIABLES
    m,       \* the caller's Matrix<Complex>
    v,       \* the caller's ComplexVector
    last,    \* the last call: [op, args, out]
    steps,   \* number of calls made so far
    z,       \* the Complex the caller renders with {:?}
    text,    \* the string the caller holds: typed in, or rendered from z
    parts,   \* from_str's local `parts`, once the splitting loop has run
    parsed,  \* what from_str returned
    pc,      \* where the caller of the text interface is
    cx,      \* the caller's Complex, in the scalar calls
    ang      \* the caller's Angle

linvars == <<m, v, last, steps>>
textvars == <<z, text, parts, parsed, pc>>
scalvars == <<cx, ang>>
vars == <<m, v, last, steps, z, text, parts, parsed, pc, cx, ang>>

\* ------------------------------------------------------------------ bounds
MaxDim == 2        \* rows, cols and vector dimensions range over 0..MaxDim
MaxSteps == 2      \* calls in one run

\* ------------------------------------------------------------ call results
Ok(x) == [ok |-> TRUE, val |-> x]
Panic == [ok |-> FALSE]

\* --------------------------------------------------------------- Complex
Complex(re, im) == [real |-> re, imag |-> im]

ComplexDefault == Complex(0, 0)

ComplexAdd(a, b) == Complex(a.real + b.real, a.imag + b.imag)

ComplexSub(a, b) == Complex(a.real - b.real, a.imag - b.imag)

\* a slip of sign in the real part of the product
ComplexMulSignSlip(a, b) ==
    Complex(a.real * b.real + a.imag * b.imag,
            a.real * b.imag + a.imag * b.real)

ComplexMul(a, b) ==
    Complex(a.real * b.real - a.imag * b.imag,
            a.real * b.imag + a.imag * b.real)

ComplexNeg(a) == Complex(-a.real, -a.imag)

\* a conjugate that negates the wrong component
ConjugateNegatesReal(a) == Complex(-a.real, a.imag)

conjugate(a) == Complex(a.real, -a.imag)

\* ---------------------------------------------------------- ComplexVector
\* A vector is its components, a sequence (index 0 of the code is index 1).
VectorNew(components) == components

VectorZeros(dimension) == [k \in 1..dimension |-> Complex(0, 0)]

dimension(vec) == Len(vec)

\* result.push(self[i] + other[i]) for i in 0..dimension, after the assertion
RECURSIVE VectorAddLoop(_, _, _, _)
VectorAddLoop(self, other, i, result) ==
    IF i >= dimension(self) THEN result
    ELSE VectorAddLoop(self, other, i + 1,
                       Append(result, ComplexAdd(self[i + 1], other[i + 1])))

VectorAdd(self, other) ==
    IF dimension(self) # dimension(other) THEN Panic
    ELSE Ok(VectorNew(VectorAddLoop(self, other, 0, <<>>)))

RECURSIVE VectorSubLoop(_, _, _, _)
VectorSubLoop(self, other, i, result) ==
    IF i >= dimension(self) THEN result
    ELSE VectorSubLoop(self, other, i + 1,
                       Append(result, ComplexSub(self[i + 1], other[i + 1])))

VectorSub(self, other) ==
    IF dimension(self) # dimension(other) THEN Panic
    ELSE Ok(VectorNew(VectorSubLoop(self, other, 0, <<>>)))

RECURSIVE InnerProductLoop(_, _, _, _)
InnerProductLoop(self, other, i, result) ==
    IF i >= dimension(self) THEN result
    ELSE InnerProductLoop(self, other, i + 1,
             ComplexAdd(result, ComplexMul(self[i + 1], conjugate(other[i + 1]))))

\* an inner product with no conjugation at all
RECURSIVE InnerProductPlainLoop(_, _, _, _)
InnerProductPlainLoop(self, other, i, result) ==
    IF i >= dimension(self) THEN result
    ELSE InnerProductPlainLoop(self, other, i + 1,
             ComplexAdd(result, ComplexMul(self[i + 1], other[i + 1])))

InnerProductNoConjugate(self, other) ==
    IF dimension(self) # dimension(other) THEN Panic
    ELSE Ok(InnerProductPlainLoop(self, other, 0, Complex(0, 0)))

\* an inner product that conjugates the first argument in place of the second
InnerProductConjugatesFirst(self, other) ==
    IF dimension(self) # dimension(other) THEN Panic
    ELSE Ok(InnerProductLoop(other, self, 0, Complex(0, 0)))

inner_product(self, other) ==
    IF dimension(self) # dimension(other) THEN Panic
    ELSE Ok(InnerProductLoop(self, other, 0, Complex(0, 0)))

\* components.iter().map(|c| c.magnitude_squared()).sum::<f64>(), over
\* integer components, where the f64 sum is exact
RECURSIVE NormSquaredLoop(_, _, _)
NormSquaredLoop(self, i, sum) ==
    IF i >= dimension(self) THEN sum
    ELSE NormSquaredLoop(self, i + 1,
             sum + self[i + 1].real * self[i + 1].real
                 + self[i + 1].imag * self[i + 1].imag)

NormSquaredExact(self) == NormSquaredLoop(self, 0, 0)

\* ----------------------------------------------------------------- Matrix
\* data is row-major; slot k of the code's Vec is data[k + 1].
Matrix(r, c, d) == [rows |-> r, cols |-> c, data |-> d]

\* new without its assert_eq!
MatrixNewUnchecked(r, c, d) == Ok(Matrix(r, c, d))

MatrixNew(r, c, d) ==
    IF Len(d) # r * c THEN Panic ELSE Ok(Matrix(r, c, d))

MatrixZeros(r, c) == Matrix(r, c, [k \in 1..(r * c) |-> ComplexDefault])

\* &self.data[row * self.cols + col]: a Vec index, which panics out of range
MatrixGet(self, row, col) ==
    LET idx == row * self.cols + col
    IN  IF idx >= Len(self.data) THEN Panic ELSE Ok(self.data[idx + 1])

\* a set that overwrites the whole row of the slot
MatrixSetFillsRow(self, row, col, value) ==
    LET idx == row * self.cols + col
    IN  IF idx >= Len(self.data) THEN Panic
        ELSE Ok([self EXCEPT !.data =
                    [k \in 1..Len(self.data) |->
                        IF (k - 1) \div self.cols = idx \div self.cols
                        THEN value ELSE self.data[k]]])

\* self.data[row * self.cols + col] = value
MatrixSet(self, row, col, value) ==
    LET idx == row * self.cols + col
    IN  IF idx >= Len(self.data) THEN Panic
        ELSE Ok([self EXCEPT !.data[idx + 1] = value])

\* for i in 0..self.data.len() { result.data[i] = self.data[i] + other.data[i] }
RECURSIVE MatrixAddLoop(_, _, _, _)
MatrixAddLoop(self, other, i, result) ==
    IF i >= Len(self.data) THEN result
    ELSE MatrixAddLoop(self, other, i + 1,
             [result EXCEPT !.data[i + 1] =
                 ComplexAdd(self.data[i + 1], other.data[i + 1])])

\* add without its two assert_eq!: the loop runs, and only the index
\* other.data[i] fails, when other is the shorter
MatrixAddUnchecked(self, other) ==
    IF Len(other.data) < Len(self.data) THEN Panic
    ELSE Ok(MatrixAddLoop(self, other, 0, MatrixZeros(self.rows, self.cols)))

MatrixAdd(self, other) ==
    IF self.rows # other.rows THEN Panic
    ELSE IF self.cols # other.cols THEN Panic
    ELSE Ok(MatrixAddLoop(self, other, 0, MatrixZeros(self.rows, self.cols)))

RECURSIVE MatrixSubLoop(_, _, _, _)
MatrixSubLoop(self, other, i, result) ==
    IF i >= Len(self.data) THEN result
    ELSE MatrixSubLoop(self, other, i + 1,
             [result EXCEPT !.data[i + 1] =
                 ComplexSub(self.data[i + 1], other.data[i + 1])])

MatrixSub(self, other) ==
    IF self.rows # other.rows THEN Panic
    ELSE IF self.cols # other.cols THEN Panic
    ELSE Ok(MatrixSubLoop(self, other, 0, MatrixZeros(self.rows, self.cols)))

RECURSIVE MatrixNegLoop(_, _, _)
MatrixNegLoop(self, i, result) ==
    IF i >= Len(self.data) THEN result
    ELSE MatrixNegLoop(self, i + 1,
             [result EXCEPT !.data[i + 1] = ComplexNeg(self.data[i + 1])])

MatrixNeg(self) == MatrixNegLoop(self, 0, MatrixZeros(self.rows, self.cols))

\* the innermost loop of the product: sum = sum + self[i][k] * other[k][j]
RECURSIVE MulSum(_, _, _, _, _, _)
MulSum(self, other, i, j, k, sum) ==
    IF k >= self.cols THEN sum
    ELSE MulSum(self, other, i, j, k + 1,
             ComplexAdd(sum, ComplexMul(MatrixGet(self, i, k).val,
                                        MatrixGet(other, k, j).val)))

\* the two outer loops, (i, j) in row-major order: n counts the pairs done
RECURSIVE MatrixMulLoop(_, _, _, _)
MatrixMulLoop(self, other, n, result) ==
    IF n >= self.rows * other.cols THEN result
    ELSE LET i == n \div other.cols
             j == n % other.cols
         IN  MatrixMulLoop(self, other, n + 1,
                 MatrixSet(result, i, j,
                           MulSum(self, other, i, j, 0, Complex(0, 0))).val)

MatrixMul(self, other) ==
    IF self.cols # other.rows THEN Panic
    ELSE Ok(MatrixMulLoop(self, other, 0, MatrixZeros(self.rows, other.cols)))

RECURSIVE IdentityLoop(_, _, _)
IdentityLoop(size, i, result) ==
    IF i >= size THEN result
    ELSE IdentityLoop(size, i + 1, MatrixSet(result, i, i, Complex(1, 0)).val)

\* an identity whose diagonal was never set
IdentityUnset(size) == MatrixZeros(size, size)

identity(size) == IdentityLoop(size, 0, MatrixZeros(size, size))

RECURSIVE MulVectorSum(_, _, _, _, _)
MulVectorSum(self, vector, i, j, sum) ==
    IF j >= self.cols THEN sum
    ELSE MulVectorSum(self, vector, i, j + 1,
             ComplexAdd(sum, ComplexMul(MatrixGet(self, i, j).val, vector[j + 1])))

RECURSIVE MulVectorLoop(_, _, _, _)
MulVectorLoop(self, vector, i, result) ==
    IF i >= self.rows THEN result
    ELSE MulVectorLoop(self, vector, i + 1,
             [result EXCEPT ![i + 1] =
                 MulVectorSum(self, vector, i, 0, Complex(0, 0))])

\* mul_vector without its assert_eq!: the loops run, and only the index
\* vector.components[j] fails, when the vector is the shorter
MulVectorUnchecked(self, vector) ==
    IF self.rows > 0 /\ self.cols > dimension(vector) THEN Panic
    ELSE Ok(MulVectorLoop(self, vector, 0, VectorZeros(self.rows)))

mul_vector(self, vector) ==
    IF self.cols # dimension(vector) THEN Panic
    ELSE Ok(MulVectorLoop(self, vector, 0, VectorZeros(self.rows)))

\* for row, for col: result.set(col, row, self.get(row, col).conjugate())
RECURSIVE ConjugateTransposeLoop(_, _, _)
ConjugateTransposeLoop(self, n, result) ==
    IF n >= self.rows * self.cols THEN result
    ELSE LET row == n \div self.cols
             col == n % self.cols
         IN  ConjugateTransposeLoop(self, n + 1,
                 MatrixSet(result, col, row,
                           conjugate(MatrixGet(self, row, col).val)).val)

\* a transpose that does not conjugate
TransposeOnly(self) ==
    Matrix(self.cols, self.rows,
           [k \in 1..(self.rows * self.cols) |->
               self.data[((k - 1) % self.rows) * self.cols
                         + ((k - 1) \div self.rows) + 1]])

conjugate_transpose(self) ==
    ConjugateTransposeLoop(self, 0, MatrixZeros(self.cols, self.rows))

\* ------------------------------------------------------------- f64 values
(***************************************************************************)
(* The text interface (Debug rendering, from_str) works on f64 values      *)
(* that come from decimal text.  A finite f64 is modelled as the decimal   *)
(* (-1)^neg * mant * 10^exp10, normalised so that mant has no trailing     *)
(* zero; the two zeros, the two infinities and NaN are values of their     *)
(* own.  Within 9 significant digits and the normal range of f64, text to  *)
(* value and value to text are exact on these decimals, as they are in     *)
(* Rust (shortest round-trip rendering).                                   *)
(***************************************************************************)
F64(neg, mant, exp10) == [k |-> "fin", neg |-> neg, mant |-> mant, exp10 |-> exp10]

F64Inf(neg) == [k |-> "inf", neg |-> neg, mant |-> 0, exp10 |-> 0]

F64NaN == [k |-> "nan", neg |-> FALSE, mant |-> 0, exp10 |-> 0]

RECURSIVE Normalise(_, _, _)
Normalise(neg, mant, exp10) ==
    IF mant = 0 THEN F64(neg, 0, 0)
    ELSE IF mant % 10 = 0 THEN Normalise(neg, mant \div 10, exp10 + 1)
    ELSE F64(neg, mant, exp10)

RECURSIVE NumDigits(_)
NumDigits(n) == IF n < 10 THEN 1 ELSE 1 + NumDigits(n \div 10)

RECURSIVE Pow10(_)
Pow10(n) == IF n <= 0 THEN 1 ELSE 10 * Pow10(n - 1)

\* f64::MAX is 1.7976931348623157e308: its decimal exponent, and its first
\* 9 digits (a mantissa of at most 9 digits never equals the limit itself)
F64MaxExp10 == 308
F64MaxLead9 == 179769313
\* below 1e-324 a decimal rounds to zero (the least f64 above 0 is 4.94e-324)
F64MinExp10 == -324

\* the f64 nearest to (-1)^neg * mant * 10^exp10
RoundF64(neg, mant, exp10) ==
    LET n  == Normalise(neg, mant, exp10)
        e  == n.exp10 + NumDigits(n.mant) - 1
    IN  IF n.mant = 0 THEN n
        ELSE IF e > F64MaxExp10 THEN F64Inf(neg)
        ELSE IF e = F64MaxExp10
                /\ n.mant * Pow10(9 - NumDigits(n.mant)) > F64MaxLead9
             THEN F64Inf(neg)
        ELSE IF e < F64MinExp10 THEN F64(neg, 0, 0)
        ELSE n

\* x == 0.0 (true of both zeros)
F64IsZero(x) == x.k = "fin" /\ x.mant = 0

\* x >= 0.0 (false of NaN, true of -0.0)
F64GeZero(x) == x.k # "nan" /\ (F64IsZero(x) \/ ~x.neg)

\* a == b of f64: NaN equals nothing, the two zeros are equal
F64Eq(a, b) ==
    /\ a.k # "nan"
    /\ b.k # "nan"
    /\ \/ F64IsZero(a) /\ F64IsZero(b)
       \/ a = b

\* -x
F64Neg(x) == IF x.k = "nan" THEN x ELSE [x EXCEPT !.neg = ~x.neg]

\* x.abs()
F64Abs(x) == [x EXCEPT !.neg = FALSE]

\* x < 0.0
F64Negative(x) == x.k # "nan" /\ ~F64IsZero(x) /\ x.neg

\* 0.0, 1.0 and the f64 of an integer literal
Zero == F64(FALSE, 0, 0)
One == F64(FALSE, 1, 0)
F64Of(n) == IF n < 0 THEN Normalise(TRUE, -n, 0) ELSE Normalise(FALSE, n, 0)

\* ------------------------------------------------------- f64 arithmetic
(***************************************************************************)
(* Arithmetic on the decimals above, for the operations whose outcome      *)
(* depends on the range of f64 and on NaN.  A result is exact where the    *)
(* decimal result has at most 9 digits; it overflows to an infinity and    *)
(* underflows to zero as RoundF64 says; and a sum in which one term is     *)
(* 18 or more decimal places below the other is the larger term.  Roots    *)
(* and quotients that are no such decimals are held as what they are the   *)
(* root or the quotient of.                                                *)
(***************************************************************************)
Abs(n) == IF n < 0 THEN -n ELSE n

\* the f64 nearest to a quotient that the model does not compute
F64Quot(num, den) == [k |-> "quot", num |-> num, den |-> den]

\* the decimal exponent of the leading digit
TopExp(x) == x.exp10 + NumDigits(x.mant) - 1

\* a term this many places below the other is lost in an f64 sum (an f64
\* holds under 17 significant digits)
F64AbsorbGap == 18

F64Mul(x, y) ==
    IF x.k = "nan" \/ y.k = "nan" THEN F64NaN
    ELSE IF x.k = "inf" \/ y.k = "inf"
         THEN IF F64IsZero(x) \/ F64IsZero(y) THEN F64NaN
              ELSE F64Inf(x.neg # y.neg)
    ELSE RoundF64(x.neg # y.neg, x.mant * y.mant, x.exp10 + y.exp10)

\* the sum of two finite non-zero values
FiniteSum(x, y) ==
    CASE TopExp(x) - TopExp(y) >= F64AbsorbGap -> x
      [] TopExp(y) - TopExp(x) >= F64AbsorbGap -> y
      [] Abs(TopExp(x) - TopExp(y)) < F64AbsorbGap ->
            LET lo == IF x.exp10 < y.exp10 THEN x.exp10 ELSE y.exp10
                mx == x.mant * Pow10(x.exp10 - lo)
                my == y.mant * Pow10(y.exp10 - lo)
                sx == IF x.neg THEN -mx ELSE mx
                sy == IF y.neg THEN -my ELSE my
            IN  IF sx + sy < 0 THEN RoundF64(TRUE, -(sx + sy), lo)
                ELSE RoundF64(FALSE, sx + sy, lo)

F64Add(x, y) ==
    IF x.k = "nan" \/ y.k = "nan" THEN F64NaN
    ELSE IF x.k = "inf"
         THEN IF y.k = "inf" /\ x.neg # y.neg THEN F64NaN ELSE x
    ELSE IF y.k = "inf" THEN y
    ELSE IF F64IsZero(x)
         THEN IF F64IsZero(y) THEN F64(x.neg /\ y.neg, 0, 0) ELSE y
    ELSE IF F64IsZero(y) THEN x
    ELSE FiniteSum(x, y)

F64Sub(x, y) == F64Add(x, F64Neg(y))

\* -1, 0 or 1: the sign of x, NaN apart
Sign(x) == IF F64IsZero(x) THEN 0 ELSE IF x.neg THEN -1 ELSE 1

\* |x| > |y| for non-zero x and y
MagnitudeGt(x, y) ==
    IF y.k = "inf" THEN FALSE
    ELSE IF x.k = "inf" THEN TRUE
    ELSE IF TopExp(x) # TopExp(y) THEN TopExp(x) > TopExp(y)
    ELSE LET lo == IF x.exp10 < y.exp10 THEN x.exp10 ELSE y.exp10
         IN  x.mant * Pow10(x.exp10 - lo) > y.mant * Pow10(y.exp10 - lo)

\* x > y; a root is above a y >= 0 when what it is the root of is above y * y
RECURSIVE F64Gt(_, _)
F64Gt(x, y) ==
    IF x.k = "root" THEN F64Gt(x.of, F64Mul(y, y))
    ELSE IF x.k = "nan" \/ y.k = "nan" THEN FALSE
    ELSE IF Sign(x) # Sign(y) THEN Sign(x) > Sign(y)
    ELSE IF Sign(x) = 0 THEN FALSE
    ELSE IF Sign(x) > 0 THEN MagnitudeGt(x, y)
    ELSE MagnitudeGt(y, x)

\* the integer root of n, if n is a square: the r in from..n with r * r = n
RECURSIVE IntRoot(_, _)
IntRoot(n, from) ==
    IF from * from >= n THEN from ELSE IntRoot(n, from + 1)

F64Root(x) == [k |-> "root", of |-> x]

\* x.sqrt(): exact on the squares
F64Sqrt(x) ==
    IF x.k = "nan" THEN F64NaN
    ELSE IF F64IsZero(x) THEN x
    ELSE IF x.neg THEN F64NaN
    ELSE IF x.k = "inf" THEN x
    ELSE LET mant == IF x.exp10 % 2 = 0 THEN x.mant ELSE 10 * x.mant
             exp10 == IF x.exp10 % 2 = 0 THEN x.exp10 ELSE x.exp10 - 1
             r == IntRoot(mant, 1)
         IN  IF r * r = mant THEN Normalise(FALSE, r, exp10 \div 2)
             ELSE F64Root(x)

\* the least shift that makes num * 10^shift, of at most 9 digits, a
\* multiple of den; 10 when there is none
RECURSIVE DivShift(_, _, _)
DivShift(num, den, shift) ==
    IF shift > 9 - NumDigits(num) THEN 10
    ELSE IF (num * Pow10(shift)) % den = 0 THEN shift
    ELSE DivShift(num, den, shift + 1)

\* x / y: exact where the quotient is a decimal of few digits
F64Div(x, y) ==
    IF x.k = "nan" \/ y.k = "nan" THEN F64NaN
    ELSE IF y.k = "root" THEN F64Quot(x, y)
    ELSE IF x.k = "inf"
         THEN IF y.k = "inf" THEN F64NaN ELSE F64Inf(x.neg # y.neg)
    ELSE IF y.k = "inf" THEN F64(x.neg # y.neg, 0, 0)
    ELSE IF F64IsZero(y)
         THEN IF F64IsZero(x) THEN F64NaN ELSE F64Inf(x.neg # y.neg)
    ELSE IF F64IsZero(x) THEN F64(x.neg # y.neg, 0, 0)
    ELSE LET shift == DivShift(x.mant, y.mant, 0)
         IN  IF shift > 9 THEN F64Quot(x, y)
             ELSE RoundF64(x.neg # y.neg,
                           (x.mant * Pow10(shift)) \div y.mant,
                           x.exp10 - y.exp10 - shift)

\* ------------------------------------------------------------------ text
\* A string is the sequence of its characters.
DigitValue ==
    [c \in {"0", "1", "2", "3", "4", "5", "6", "7", "8", "9"} |->
        CASE c = "0" -> 0 [] c = "1" -> 1 [] c = "2" -> 2 [] c = "3" -> 3
          [] c = "4" -> 4 [] c = "5" -> 5 [] c = "6" -> 6 [] c = "7" -> 7
          [] c = "8" -> 8 [] c = "9" -> 9]

DigitChar == <<"0", "1", "2", "3", "4", "5", "6", "7", "8", "9">>

IsDigit(c) == c \in DOMAIN DigitValue

Whitespace == {" "}

\* the index after the run of digits that starts at i
RECURSIVE DigitsEnd(_, _)
DigitsEnd(s, i) ==
    IF i <= Len(s) /\ IsDigit(s[i]) THEN DigitsEnd(s, i + 1) ELSE i

\* the number written by the digits s[from .. to-1], after acc
RECURSIVE DigitsNumber(_, _, _, _)
DigitsNumber(s, from, to, acc) ==
    IF from >= to THEN acc
    ELSE DigitsNumber(s, from + 1, to, 10 * acc + DigitValue[s[from]])

ToLower(c) ==
    CASE c = "I" -> "i" [] c = "N" -> "n" [] c = "F" -> "f" [] c = "A" -> "a"
      [] c = "T" -> "t" [] c = "Y" -> "y" [] c = "E" -> "e" [] OTHER -> c

LowerCase(s) == [k \in 1..Len(s) |-> ToLower(s[k])]

\* str::parse::<f64>: [+-]? ( digits [. digits?] | . digits ) ([eE] [+-]? digits)?
\* or, whatever the case of its letters, inf, infinity or nan.
ParseOkF64(x) == [ok |-> TRUE, val |-> x]
ParseErrF64 == [ok |-> FALSE]

ParseNumber(s, neg) ==
    LET intEnd  == DigitsEnd(s, 1)
        hasDot  == intEnd <= Len(s) /\ s[intEnd] = "."
        fracBeg == IF hasDot THEN intEnd + 1 ELSE intEnd
        fracEnd == IF hasDot THEN DigitsEnd(s, fracBeg) ELSE intEnd
        nDigits == (intEnd - 1) + (fracEnd - fracBeg)
        hasExp  == fracEnd <= Len(s) /\ s[fracEnd] \in {"e", "E"}
        sgnPos  == fracEnd + 1
        hasSign == hasExp /\ sgnPos <= Len(s) /\ s[sgnPos] \in {"+", "-"}
        expBeg  == IF hasSign THEN sgnPos + 1 ELSE sgnPos
        expEnd  == IF hasExp THEN DigitsEnd(s, expBeg) ELSE fracEnd
        expAbs  == DigitsNumber(s, expBeg, expEnd, 0)
        expVal  == IF ~hasExp THEN 0
                   ELSE IF hasSign /\ s[sgnPos] = "-" THEN -expAbs ELSE expAbs
        mant    == DigitsNumber(s, fracBeg, fracEnd,
                                DigitsNumber(s, 1, intEnd, 0))
    IN  IF nDigits = 0 THEN ParseErrF64
        ELSE IF hasExp /\ expEnd = expBeg THEN ParseErrF64
        ELSE IF expEnd # Len(s) + 1 THEN ParseErrF64
        ELSE ParseOkF64(RoundF64(neg, mant, expVal - (fracEnd - fracBeg)))

ParseInfNan(s, neg) ==
    LET l == LowerCase(s)
    IN  IF l = <<"n", "a", "n">> THEN ParseOkF64(F64NaN)
        ELSE IF l = <<"i", "n", "f">>
                \/ l = <<"i", "n", "f", "i", "n", "i", "t", "y">>
             THEN ParseOkF64(F64Inf(neg))
        ELSE ParseErrF64

ParseF64(s) ==
    IF s = <<>> THEN ParseErrF64
    ELSE LET neg    == s[1] = "-"
             signed == s[1] \in {"+", "-"}
             rest   == IF signed THEN SubSeq(s, 2, Len(s)) ELSE s
         IN  IF rest = <<>> THEN ParseErrF64
             ELSE LET num == ParseNumber(rest, neg)
                  IN  IF num.ok THEN num ELSE ParseInfNan(rest, neg)

\* the digits of n, most significant first
RECURSIVE Digits(_)
Digits(n) ==
    IF n < 10 THEN <<DigitChar[n + 1]>>
    ELSE Append(Digits(n \div 10), DigitChar[(n % 10) + 1])

Repeat(c, n) == [k \in 1..n |-> c]

\* {} of an f64: no exponent form, "NaN" without a sign, "inf", "-0"
FmtF64(x) ==
    LET sign == IF x.neg THEN <<"-">> ELSE <<>>
        ds   == Digits(x.mant)
        p    == -x.exp10
    IN  IF x.k = "nan" THEN <<"N", "a", "N">>
        ELSE IF x.k = "inf" THEN sign \o <<"i", "n", "f">>
        ELSE IF x.exp10 >= 0 THEN sign \o ds \o Repeat("0", x.exp10)
        ELSE IF Len(ds) > p
             THEN sign \o SubSeq(ds, 1, Len(ds) - p) \o <<".">>
                       \o SubSeq(ds, Len(ds) - p + 1, Len(ds))
        ELSE sign \o <<"0", ".">> \o Repeat("0", p - Len(ds)) \o ds

\* a Debug that writes the "+" before every imaginary part
ComplexDebugAlwaysPlus(c) ==
    IF F64IsZero(c.imag) THEN FmtF64(c.real)
    ELSE FmtF64(c.real) \o <<"+">> \o FmtF64(c.imag) \o <<"i">>

\* impl fmt::Debug for Complex
ComplexDebug(c) ==
    IF F64IsZero(c.imag) THEN FmtF64(c.real)
    ELSE LET sign == IF F64GeZero(c.imag) THEN <<"+">> ELSE <<>>
         IN  FmtF64(c.real) \o sign \o FmtF64(c.imag) \o <<"i">>

\* --------------------------------------------------------------- from_str
RECURSIVE TrimStart(_)
TrimStart(s) ==
    IF s # <<>> /\ s[1] \in Whitespace THEN TrimStart(Tail(s)) ELSE s

RECURSIVE TrimEndMatches(_, _)
TrimEndMatches(s, cs) ==
    IF s # <<>> /\ s[Len(s)] \in cs
    THEN TrimEndMatches(SubSeq(s, 1, Len(s) - 1), cs)
    ELSE s

\* from_str without its trim()
TrimNothing(s) == s

trim(s) == TrimEndMatches(TrimStart(s), Whitespace)

contains(s, c) == \E k \in 1..Len(s) : s[k] = c

trim_end_matches(s, c) == TrimEndMatches(s, {c})

FromStrOk(c) == [ok |-> TRUE, val |-> c]
FromStrErr(part, e) == [ok |-> FALSE, err |-> part, detail |-> e]

InvalidFloat == "invalid float literal"

\* lines 301-305: the input has no 'i'
PureReal(s) ==
    LET real == ParseF64(s)
    IN  IF ~real.ok THEN FromStrErr("Invalid real part", InvalidFloat)
        ELSE FromStrOk(Complex(real.val, F64(FALSE, 0, 0)))

\* lines 307-318: the input has an 'i' and neither '+' nor '-'
PureImaginary(s) ==
    LET imag_str == trim_end_matches(s, "i")
        imag     == ParseF64(imag_str)
    IN  IF imag_str = <<>> THEN FromStrOk(Complex(F64(FALSE, 0, 0), F64(FALSE, 1, 0)))
        ELSE IF imag_str = <<"-">>
             THEN FromStrOk(Complex(F64(FALSE, 0, 0), F64(TRUE, 1, 0)))
        ELSE IF ~imag.ok THEN FromStrErr("Invalid imaginary part", InvalidFloat)
        ELSE FromStrOk(Complex(F64(FALSE, 0, 0), imag.val))

\* the test of line 326 with the lower-case 'e' alone
StartsTermLowerOnly(c, last_char) ==
    (c = "+" \/ c = "-") /\ last_char # "e"

\* the test of line 326 without the look at last_char
StartsTermAnySign(c, last_char) == c = "+" \/ c = "-"

\* line 326: does c start a new term, after last_char?
StartsTerm(c, last_char) ==
    (c = "+" \/ c = "-") /\ last_char # "e" /\ last_char # "E"

\* lines 325-339: the loop over s.chars(), then the push of the last term
RECURSIVE SplitLoop(_, _, _, _, _)
SplitLoop(s, i, split, current, last_char) ==
    IF i > Len(s)
    THEN IF current # <<>> THEN Append(split, current) ELSE split
    ELSE LET c == s[i]
         IN  IF StartsTerm(c, last_char)
             THEN IF current # <<>>
                  THEN SplitLoop(s, i + 1, Append(split, current), <<c>>, c)
                  ELSE SplitLoop(s, i + 1, split, Append(current, c), c)
             ELSE SplitLoop(s, i + 1, split, Append(current, c), c)

SplitTerms(s) == SplitLoop(s, 1, <<>>, <<>>, " ")

\* line 346 as ends_with('i')
IsImaginaryTermByEnd(part) == part # <<>> /\ part[Len(part)] = "i"

\* line 346: is the term the imaginary one?
IsImaginaryTerm(part) == contains(part, "i")

\* lines 347-356 without the branch for a bare '+'
ImaginaryValueNoPlus(part) ==
    LET imag_str == trim_end_matches(part, "i")
    IN  IF imag_str = <<>> THEN ParseOkF64(F64(FALSE, 1, 0))
        ELSE IF imag_str = <<"-">> THEN ParseOkF64(F64(TRUE, 1, 0))
        ELSE ParseF64(imag_str)

\* lines 347-356: the coefficient of an imaginary term
ImaginaryValue(part) ==
    LET imag_str == trim_end_matches(part, "i")
    IN  IF imag_str = <<>> THEN ParseOkF64(F64(FALSE, 1, 0))
        ELSE IF imag_str = <<"-">> THEN ParseOkF64(F64(TRUE, 1, 0))
        ELSE IF imag_str = <<"+">> THEN ParseOkF64(F64(FALSE, 1, 0))
        ELSE ParseF64(imag_str)

\* lines 345-364 keeping the first term of each kind, not the last
RECURSIVE ParsePartsFirstWins(_, _, _, _)
ParsePartsFirstWins(split, n, real, imag) ==
    IF n > Len(split) THEN FromStrOk(Complex(real.val, imag.val))
    ELSE LET part == split[n]
         IN  IF IsImaginaryTerm(part)
             THEN LET value == ImaginaryValue(part)
                  IN  IF ~value.ok
                      THEN FromStrErr("Invalid imaginary part", InvalidFloat)
                      ELSE ParsePartsFirstWins(split, n + 1, real,
                               IF imag.set THEN imag
                               ELSE [set |-> TRUE, val |-> value.val])
             ELSE LET value == ParseF64(part)
                  IN  IF ~value.ok
                      THEN FromStrErr("Invalid real part", InvalidFloat)
                      ELSE ParsePartsFirstWins(split, n + 1,
                               IF real.set THEN real
                               ELSE [set |-> TRUE, val |-> value.val], imag)

ParsePartsKeepFirst(split, n, real, imag) ==
    ParsePartsFirstWins(split, n, [set |-> FALSE, val |-> real],
                        [set |-> FALSE, val |-> imag])

\* a loop over the terms that passes over a malformed term and keeps the
\* values parsed so far
RECURSIVE ParsePartsSkipsInvalid(_, _, _, _)
ParsePartsSkipsInvalid(split, n, real, imag) ==
    IF n > Len(split) THEN FromStrOk(Complex(real, imag))
    ELSE LET part == split[n]
             value == IF IsImaginaryTerm(part) THEN ImaginaryValue(part)
                      ELSE ParseF64(part)
         IN  IF ~value.ok THEN ParsePartsSkipsInvalid(split, n + 1, real, imag)
             ELSE IF IsImaginaryTerm(part)
                  THEN ParsePartsSkipsInvalid(split, n + 1, real, value.val)
             ELSE ParsePartsSkipsInvalid(split, n + 1, value.val, imag)

\* lines 345-364: the loop over the terms; an error returns at once
RECURSIVE ParseParts(_, _, _, _)
ParseParts(split, n, real, imag) ==
    IF n > Len(split) THEN FromStrOk(Complex(real, imag))
    ELSE LET part == split[n]
         IN  IF IsImaginaryTerm(part)
             THEN LET value == ImaginaryValue(part)
                  IN  IF ~value.ok
                      THEN FromStrErr("Invalid imaginary part", InvalidFloat)
                      ELSE ParseParts(split, n + 1, real, value.val)
             ELSE LET value == ParseF64(part)
                  IN  IF ~value.ok
                      THEN FromStrErr("Invalid real part", InvalidFloat)
                      ELSE ParseParts(split, n + 1, value.val, imag)

\* which way from_str goes on the trimmed input
FromStrBranch(s) ==
    IF s = <<>> THEN "empty"
    ELSE IF ~contains(s, "i") THEN "real"
    ELSE IF ~contains(s, "+") /\ ~contains(s, "-") THEN "imaginary"
    ELSE "split"

\* the whole of from_str
from_str(str) ==
    LET s == trim(str)
        b == FromStrBranch(s)
    IN  IF b = "empty" THEN FromStrErr("Empty string", "")
        ELSE IF b = "real" THEN PureReal(s)
        ELSE IF b = "imaginary" THEN PureImaginary(s)
        ELSE ParseParts(SplitTerms(s), 1, F64(FALSE, 0, 0), F64(FALSE, 0, 0))

\* ------------------------------------------- Complex: the scalar operations
\* magnitude_squared: real*real + imag*imag
magnitude_squared(self) == self.real * self.real + self.imag * self.imag

RECURSIVE Gcd(_, _)
Gcd(x, y) == IF y = 0 THEN x ELSE Gcd(y, x % y)

\* the f64 quotient n / d of two integers: NaN for 0/0, an infinity for a
\* non-zero n over 0, and otherwise the f64 nearest to n/d, which the model
\* holds as the reduced fraction it is nearest to (distinct reduced
\* fractions of small integers are distinct f64 values)
F64DivInt(n, d) ==
    IF d = 0
    THEN IF n = 0 THEN F64NaN ELSE F64Inf(n < 0)
    ELSE LET g == Gcd(Abs(n), Abs(d))
             s == IF d < 0 THEN -1 ELSE 1
         IN  F64Quot(s * (n \div g), s * (d \div g))

\* a division that refuses a zero divisor, which the code does not do
ComplexDivChecked(self, other) ==
    LET denominator == magnitude_squared(other)
    IN  IF denominator = 0
        THEN Panic
        ELSE Ok(Complex(
                 F64DivInt(self.real * other.real + self.imag * other.imag,
                        denominator),
                 F64DivInt(self.imag * other.real - self.real * other.imag,
                        denominator)))

\* impl Div for Complex: no test of the divisor
ComplexDiv(self, other) ==
    LET denominator == magnitude_squared(other)
    IN  Ok(Complex(
            F64DivInt(self.real * other.real + self.imag * other.imag,
                   denominator),
            F64DivInt(self.imag * other.real - self.real * other.imag,
                   denominator)))

\* --------------------------- Complex, ComplexVector, Matrix on f64 components
(***************************************************************************)
(* is_unitary and normalize compare f64 values with a tolerance and with   *)
(* zero, so their outcome depends on rounding, on the range of f64 and on  *)
(* NaN.  They are modelled on components that are f64 values (the          *)
(* decimals above), together with the operations they call.                *)
(***************************************************************************)
ComplexAddF64(a, b) ==
    Complex(F64Add(a.real, b.real), F64Add(a.imag, b.imag))

ComplexSubF64(a, b) ==
    Complex(F64Sub(a.real, b.real), F64Sub(a.imag, b.imag))

ComplexMulF64(a, b) ==
    Complex(F64Sub(F64Mul(a.real, b.real), F64Mul(a.imag, b.imag)),
            F64Add(F64Mul(a.real, b.imag), F64Mul(a.imag, b.real)))

conjugateF64(a) == Complex(a.real, F64Neg(a.imag))

magnitude_squaredF64(self) ==
    F64Add(F64Mul(self.real, self.real), F64Mul(self.imag, self.imag))

magnitude(self) == F64Sqrt(magnitude_squaredF64(self))

\* impl Div<f64> for Complex
ComplexDivScalar(self, scalar) ==
    Complex(F64Div(self.real, scalar), F64Div(self.imag, scalar))

\* components.iter().all(|c| c.real == 0.0 && c.imag == 0.0)
is_zero(self) ==
    \A k \in 1..Len(self) :
        F64Eq(self[k].real, Zero) /\ F64Eq(self[k].imag, Zero)

\* components.iter().map(|c| c.magnitude_squared()).sum::<f64>()
RECURSIVE SumSquares(_, _, _)
SumSquares(self, i, sum) ==
    IF i >= Len(self) THEN sum
    ELSE SumSquares(self, i + 1,
                    F64Add(sum, magnitude_squaredF64(self[i + 1])))

norm_squared(self) == SumSquares(self, 0, Zero)

norm(self) == F64Sqrt(SumSquares(self, 0, Zero))

\* ComplexVector::normalize: assert!(norm != 0.0), then every component
\* divided by norm
VectorNormalize(self) ==
    IF F64Eq(norm(self), Zero) THEN Panic
    ELSE Ok([k \in 1..Len(self) |-> ComplexDivScalar(self[k], norm(self))])

identityF64(size) ==
    Matrix(size, size,
           [n \in 1..(size * size) |->
               IF (n - 1) \div size = (n - 1) % size
               THEN Complex(One, Zero) ELSE Complex(Zero, Zero)])

conjugate_transposeF64(self) ==
    Matrix(self.cols, self.rows,
           [n \in 1..(self.rows * self.cols) |->
               conjugateF64(MatrixGet(self, (n - 1) % self.rows,
                                      (n - 1) \div self.rows).val)])

\* for k in 0..self.cols: sum = sum + self[i][k] * other[k][j]
RECURSIVE MulSumF64(_, _, _, _, _, _)
MulSumF64(self, other, i, j, k, sum) ==
    IF k >= self.cols THEN sum
    ELSE MulSumF64(self, other, i, j, k + 1,
             ComplexAddF64(sum,
                 ComplexMulF64(MatrixGet(self, i, k).val,
                               MatrixGet(other, k, j).val)))

\* &self * &other, for self.cols = other.rows
MatrixMulF64(self, other) ==
    Matrix(self.rows, other.cols,
           [n \in 1..(self.rows * other.cols) |->
               MulSumF64(self, other, (n - 1) \div other.cols,
                         (n - 1) % other.cols, 0, Complex(Zero, Zero))])

\* 1e-10
Tolerance == F64(FALSE, 1, -10)

\* diff.magnitude() > 1e-10
ExceedsTolerance(diff) == F64Gt(magnitude(diff), Tolerance)

\* Matrix::is_unitary: false when one entry of self * self^H - identity has
\* a magnitude above the tolerance
is_unitary(self) ==
    IF self.rows # self.cols THEN FALSE
    ELSE LET size == self.rows
             identity_ == identityF64(size)
             product == MatrixMulF64(self, conjugate_transposeF64(self))
         IN  \A i \in 0..(size - 1), j \in 0..(size - 1) :
                 ~ExceedsTolerance(ComplexSubF64(
                       MatrixGet(product, i, j).val,
                       MatrixGet(identity_, i, j).val))

\* -------------------------------------------------------------------- Angle
\* The f64 of an Angle.  Its finite values are held exactly, as
\* int + tiny * 2^(-exp) with tiny in {-1, 0, 1} and exp >= 2: the integers,
\* and the values one binary digit away from them at any depth; and as
\* +-PI * 2^exp, the f64 constant PI scaled by a power of two.  NaN and the
\* infinities are F64NaN and F64Inf.  The sign of a zero is not held: no
\* comparison of the code tells -0.0 from 0.0.
Bin(int, tiny, exp) ==
    [k |-> "bin", int |-> int, tiny |-> tiny,
     exp |-> IF tiny = 0 THEN 0 ELSE exp]

PiTimes(neg, exp) == [k |-> "pi", neg |-> neg, exp |-> exp]

\* the significand of an f64 has 53 binary digits
F64MantissaBits == 53

RECURSIVE Log2(_)
Log2(n) == IF n < 2 THEN 0 ELSE 1 + Log2(n \div 2)

RECURSIVE Pow2(_)
Pow2(n) == IF n <= 0 THEN 1 ELSE 2 * Pow2(n - 1)

IsPow2(n) == n = Pow2(Log2(n))

\* the f64 nearest to int + tiny * 2^(-exp), ties to even: the tiny part
\* survives when it is within the 53 digits that start at the leading digit
\* of the value, and is rounded away otherwise
RoundBin(int, tiny, exp) ==
    IF tiny = 0 \/ int = 0
    THEN Bin(int, tiny, exp)
    ELSE LET A == Abs(int)
             toward == IF int < 0 THEN -tiny ELSE tiny
             room == IF toward < 0 /\ IsPow2(A)
                     THEN F64MantissaBits - Log2(A)
                     ELSE F64MantissaBits - 1 - Log2(A)
         IN  IF exp <= room THEN Bin(int, tiny, exp) ELSE Bin(int, 0, 0)

\* x < 0.0
F64LtZero(x) ==
    CASE x.k = "nan" -> FALSE
      [] x.k = "inf" -> x.neg
      [] x.k = "bin" -> x.int < 0 \/ (x.int = 0 /\ x.tiny < 0)

\* x % n for a positive integer n: the remainder of the truncated division,
\* which is exact and has the sign of x; NaN for an infinite or NaN x
F64Rem(x, n) ==
    IF x.k # "bin" THEN F64NaN
    ELSE IF x.int = 0 THEN x
    ELSE LET A == Abs(x.int)
             toward == IF x.int < 0 THEN -x.tiny ELSE x.tiny
             R == IF toward < 0 /\ A % n = 0 THEN n ELSE A % n
         IN  IF x.int < 0 THEN Bin(-R, -toward, x.exp)
                          ELSE Bin(R, toward, x.exp)

\* x + n for an integer n, rounded to f64
F64AddInt(x, n) ==
    IF x.k # "bin" THEN x ELSE RoundBin(x.int + n, x.tiny, x.exp)

\* rad * 180.0 / PI: exact for PI * 2^exp (the test asserts 180.0 for PI),
\* for 0.0, for NaN and for the infinities
RadToDeg(rad) ==
    CASE rad.k = "nan" -> F64NaN
      [] rad.k = "inf" -> rad
      [] rad.k = "pi" ->
            Bin((IF rad.neg THEN -45 ELSE 45) * Pow2(rad.exp + 2), 0, 0)
      [] rad.k = "bin" /\ rad.int = 0 /\ rad.tiny = 0 -> rad

Degree(x) == [tag |-> "Degree", val |-> x]
Radian(x) == [tag |-> "Radian", val |-> x]

from_degrees(degrees) == Degree(degrees)
from_radians(radians) == Radian(radians)

to_degrees(self) ==
    IF self.tag = "Degree" THEN self.val ELSE RadToDeg(self.val)

as_degrees(self) == Degree(to_degrees(self))

\* Angle::normalize
AngleNormalize(self) ==
    LET degrees == to_degrees(self)
        normalized == F64Rem(degrees, 360)
        result == IF F64LtZero(normalized)
                  THEN F64AddInt(normalized, 360)
                  ELSE normalized
    IN  Degree(result)

\* derive(PartialEq) on Angle: the same variant and f64 ==, under which NaN
\* is equal to nothing
AngleEq(x, y) ==
    /\ x.tag = y.tag
    /\ x.val.k # "nan"
    /\ y.val.k # "nan"
    /\ x.val = y.val

\* ------------------------------------------------------- the caller's inputs
Dims == 0..MaxDim

\* the data a caller passes: n distinct components, none real, none symmetric
InputData(n, seed) == [k \in 1..n |-> Complex(k + seed, seed - 2 * k + 1)]

\* what the caller starts with and builds with new, and the operands it
\* passes to the binary operations
OwnData(n) == InputData(n, 0)
OperandData(n) == InputData(n, 1)

InputMatrices ==
    { Matrix(r, c, OperandData(r * c)) : r \in Dims, c \in Dims }

InputVectors == { OperandData(n) : n \in Dims }

InputValues == { Complex(7, -3), Complex(0, 2) }

\* the lengths of data tried with new(r, c, data): right, one short, one long
InputLens(r, c) == { n \in {r * c - 1, r * c, r * c + 1} : n >= 0 }

Call(op, args, out) == [op |-> op, args |-> args, out |-> out]

\* ------------------------------------------------- inputs of the text interface
MaxLen == 4        \* typed strings have at most MaxLen characters
MaxMant == 4       \* rendered components have mantissas 0..MaxMant

Alphabet == {"0", "1", "2", ".", "e", "E", "+", "-", "i", " "}

\* the strings of the documentation and of the tests, and some of their kin
DocTexts ==
    { <<"2", "+", "3", "i">>,
      <<"-", "1", ".", "5", "-", "2", ".", "5", "i">>,
      <<"3", "i">>, <<"-", "i">>, <<"i">>, <<"5">>, <<>>,
      <<"1", "e", "-", "5", "+", "2", "E", "+", "3", "i">>,
      <<"1", "+", "2", "+", "3", "i">>,
      <<"1", "+", "2", "i", "-", "3", "+", "i">>,
      <<" ", "2", "+", "3", "i", " ", " ">>,
      <<"i", "n", "f">>, <<"1", "+", "i", "n", "f">>,
      <<"n", "a", "n", "i">>, <<"x", "+", "1", "i">>, <<"1", "+", "x", "i">> }

InputTexts == DocTexts \cup UNION { [1..n -> Alphabet] : n \in 0..MaxLen }

InputFloats ==
    { Normalise(neg, mant, exp10) :
          neg \in BOOLEAN, mant \in 0..MaxMant, exp10 \in {-1, 0} }
    \cup { F64Inf(FALSE), F64Inf(TRUE), F64NaN }

InputComplex == { Complex(re, im) : re \in InputFloats, im \in InputFloats }

NoComplex == [none |-> TRUE]
NotParsed == [none |-> TRUE]

\* ------------------------------------------------ inputs of the scalar calls
MaxComp == 2       \* components of the caller's Complex: -MaxComp..MaxComp
MaxTurns == 2      \* degrees range over -MaxTurns..MaxTurns full turns

InputScalars ==
    { Complex(re, im) : re \in -MaxComp..MaxComp, im \in -MaxComp..MaxComp }

\* the second operand of the binary operations
ScalarOperands ==
    { Complex(0, 0), Complex(0, 1), Complex(2, -1), Complex(-3, 2) }

\* degrees within one turn, those of the tests among them
Rests == {0, 1, 40, 45, 180, 315, 359}

\* depths of the digit next to an integer: 2^-2, ..., 2^-60
TinyExps == {2, 44, 45, 60}

\* the values that are f64 values
Representable(x) == x.k # "bin" \/ RoundBin(x.int, x.tiny, x.exp) = x

InputDegrees ==
    { Bin(360 * n + r, 0, 0) : n \in -MaxTurns..MaxTurns, r \in Rests }
    \cup { x \in { Bin(i, s, e) : i \in {0, 360, -360, -5},
                                  s \in {-1, 1}, e \in TinyExps } :
               Representable(x) }
    \cup { F64Inf(FALSE), F64Inf(TRUE), F64NaN }

InputRadians ==
    { PiTimes(neg, e) : neg \in BOOLEAN, e \in -2..MaxTurns }
    \cup { Bin(0, 0, 0), F64Inf(FALSE), F64Inf(TRUE), F64NaN }

InputAngles ==
    { from_degrees(d) : d \in InputDegrees }
    \cup { from_radians(r) : r \in InputRadians }

\* ------------------------------------- inputs of is_unitary and normalize
\* Complex(3.0, 4.0) / 5.0
ThreeFourFifths == Complex(F64(FALSE, 6, -1), F64(FALSE, 8, -1))

\* the diagonal of the matrices tried: units, non-units, a component whose
\* square overflows, an infinity, NaN
DiagValues ==
    { Complex(One, Zero), Complex(Zero, One), ThreeFourFifths,
      Complex(Zero, Zero), Complex(F64Of(2), Zero),
      Complex(F64(FALSE, 1, 200), F64(FALSE, 1, 200)),
      Complex(F64Inf(FALSE), Zero), Complex(F64NaN, Zero) }

\* their entry (0, 1): zero, below the tolerance, above it, far above
OffValues ==
    { Complex(Zero, Zero), Complex(F64(FALSE, 1, -11), Zero),
      Complex(F64(FALSE, 1, -9), Zero), Complex(One, Zero) }

PatternMatrix(r, c, d, o) ==
    Matrix(r, c,
           [n \in 1..(r * c) |->
               IF (n - 1) \div c = (n - 1) % c THEN d
               ELSE IF (n - 1) \div c = 0 /\ (n - 1) % c = 1 THEN o
               ELSE Complex(Zero, Zero)])

FloatMatrices ==
    { PatternMatrix(r, c, d, o) :
          r \in Dims, c \in Dims, d \in DiagValues, o \in OffValues }

\* the first component of the vectors tried, and the other components
FirstValues ==
    { Complex(Zero, Zero), Complex(F64Of(3), Zero), Complex(F64Of(-5), Zero),
      Complex(F64(FALSE, 1, 200), Zero), Complex(F64(FALSE, 1, -200), Zero),
      Complex(F64Inf(FALSE), Zero), Complex(Zero, F64NaN) }

RestValues == { Complex(Zero, Zero), Complex(Zero, F64Of(4)) }

PatternVector(n, first, rest) ==
    [k \in 1..n |-> IF k = 1 THEN first ELSE rest]

\* the norm and the quotients of the vector are decimals the model holds
Computable(x) ==
    LET out == VectorNormalize(x)
    IN  out.ok => \A k \in 1..Len(x) :
                      /\ out.val[k].real.k # "quot"
                      /\ out.val[k].imag.k # "quot"

FloatVectors ==
    { x \in { PatternVector(n, first, rest) :
                  n \in Dims, first \in FirstValues, rest \in RestValues } :
          Computable(x) }

\* ------------------------------------------------------------------ actions
LinInit ==
    /\ m \in { Matrix(r, c, OwnData(r * c)) : r \in Dims, c \in Dims }
    /\ v \in { OwnData(n) : n \in Dims }
    /\ last = Call("init", <<>>, Panic)
    /\ steps = 0

TextIdle ==
    /\ z = NoComplex
    /\ text = <<>>
    /\ parts = <<>>
    /\ parsed = NotParsed
    /\ pc = "idle"

ScalarIdle ==
    /\ cx = ComplexDefault
    /\ ang = from_degrees(Bin(0, 0, 0))

Init == LinInit /\ TextIdle /\ ScalarIdle

\* a call that returns a matrix, which the caller keeps in place of m
KeepMatrix(op, args, out) ==
    /\ steps < MaxSteps
    /\ steps' = steps + 1
    /\ last' = Call(op, args, out)
    /\ m' = IF out.ok THEN out.val ELSE m
    /\ v' = v
    /\ UNCHANGED textvars
    /\ UNCHANGED scalvars

KeepVector(op, args, out) ==
    /\ steps < MaxSteps
    /\ steps' = steps + 1
    /\ last' = Call(op, args, out)
    /\ v' = IF out.ok THEN out.val ELSE v
    /\ m' = m
    /\ UNCHANGED textvars
    /\ UNCHANGED scalvars

\* a call whose result the caller only looks at
Observe(op, args, out) ==
    /\ steps < MaxSteps
    /\ steps' = steps + 1
    /\ last' = Call(op, args, out)
    /\ UNCHANGED <<m, v>>
    /\ UNCHANGED textvars
    /\ UNCHANGED scalvars

New ==
    \E r \in Dims, c \in Dims :
        \E n \in InputLens(r, c) :
            KeepMatrix("new", <<r, c, OwnData(n)>>,
                       MatrixNew(r, c, OwnData(n)))

Zeros ==
    \E r \in Dims, c \in Dims :
        KeepMatrix("zeros", <<r, c>>, Ok(MatrixZeros(r, c)))

Identity ==
    \E n \in Dims : KeepMatrix("identity", <<n>>, Ok(identity(n)))

Set ==
    \E row \in Dims, col \in Dims, value \in InputValues :
        KeepMatrix("set", <<m, row, col, value>>, MatrixSet(m, row, col, value))

Get ==
    \E row \in Dims, col \in Dims :
        Observe("get", <<m, row, col>>, MatrixGet(m, row, col))

Add ==
    \E other \in InputMatrices :
        KeepMatrix("add", <<m, other>>, MatrixAdd(m, other))

Sub ==
    \E other \in InputMatrices :
        KeepMatrix("sub", <<m, other>>, MatrixSub(m, other))

Neg == KeepMatrix("neg", <<m>>, Ok(MatrixNeg(m)))

Mul ==
    \E other \in InputMatrices \cup { identity(n) : n \in Dims } :
        KeepMatrix("mul", <<m, other>>, MatrixMul(m, other))

ConjugateTranspose ==
    KeepMatrix("conjugate_transpose", <<m>>, Ok(conjugate_transpose(m)))

MulVector == KeepVector("mul_vector", <<m, v>>, mul_vector(m, v))

VAdd ==
    \E other \in InputVectors :
        KeepVector("vadd", <<v, other>>, VectorAdd(v, other))

VSub ==
    \E other \in InputVectors :
        KeepVector("vsub", <<v, other>>, VectorSub(v, other))

InnerProduct ==
    \E other \in InputVectors :
        Observe("inner_product", <<v, other>>, inner_product(v, other))

Next ==
    \/ New
    \/ Zeros
    \/ Identity
    \/ Set
    \/ Get
    \/ Add
    \/ Sub
    \/ Neg
    \/ Mul
    \/ ConjugateTranspose
    \/ MulVector
    \/ VAdd
    \/ VSub
    \/ InnerProduct

Spec == Init /\ [][Next]_vars

\* ------------------------------------------------- the text interface
\* the caller starts with a typed string, or with a Complex to render
TextInit ==
    /\ m = MatrixZeros(0, 0)
    /\ v = VectorZeros(0)
    /\ last = Call("init", <<>>, Panic)
    /\ steps = 0
    /\ parts = <<>>
    /\ parsed = NotParsed
    /\ \/ pc = "text" /\ text \in InputTexts /\ z = NoComplex
       \/ pc = "value" /\ z \in InputComplex /\ text = <<>>
    /\ ScalarIdle

\* format!("{:?}", z)
Debug ==
    /\ pc = "value"
    /\ text' = ComplexDebug(z)
    /\ pc' = "text"
    /\ UNCHANGED <<z, parts, parsed>>
    /\ UNCHANGED linvars
    /\ UNCHANGED scalvars

\* text.parse::<Complex>() returning from one of its three early returns
FromStrReturn ==
    /\ pc = "text"
    /\ FromStrBranch(trim(text)) # "split"
    /\ parsed' = from_str(text)
    /\ pc' = "done"
    /\ UNCHANGED <<z, text, parts>>
    /\ UNCHANGED linvars
    /\ UNCHANGED scalvars

\* text.parse::<Complex>() up to the end of the splitting loop
FromStrSplit ==
    /\ pc = "text"
    /\ FromStrBranch(trim(text)) = "split"
    /\ parts' = SplitTerms(trim(text))
    /\ pc' = "parts"
    /\ UNCHANGED <<z, text, parsed>>
    /\ UNCHANGED linvars
    /\ UNCHANGED scalvars

\* ... and from there to its return
FromStrParts ==
    /\ pc = "parts"
    /\ parsed' = ParseParts(parts, 1, F64(FALSE, 0, 0), F64(FALSE, 0, 0))
    /\ pc' = "done"
    /\ UNCHANGED <<z, text, parts>>
    /\ UNCHANGED linvars
    /\ UNCHANGED scalvars

TextNext ==
    \/ Debug
    \/ FromStrReturn
    \/ FromStrSplit
    \/ FromStrParts

SpecText == TextInit /\ [][TextNext]_vars

\* ------------------------------------------------- the scalar calls
LinIdle ==
    /\ m = MatrixZeros(0, 0)
    /\ v = VectorZeros(0)
    /\ last = Call("init", <<>>, Panic)
    /\ steps = 0

\* the caller starts with a Complex, or with an Angle it has constructed
ScalarInit ==
    /\ LinIdle
    /\ TextIdle
    /\ \/ cx \in InputScalars /\ ang = from_degrees(Bin(0, 0, 0))
       \/ cx = ComplexDefault /\ ang \in InputAngles

\* a call that returns a Complex, which the caller keeps in place of cx
KeepComplex(op, args, out) ==
    /\ steps < MaxSteps
    /\ steps' = steps + 1
    /\ last' = Call(op, args, out)
    /\ cx' = out.val
    /\ ang' = ang
    /\ UNCHANGED <<m, v>>
    /\ UNCHANGED textvars

CAdd ==
    \E other \in ScalarOperands :
        KeepComplex("cadd", <<cx, other>>, Ok(ComplexAdd(cx, other)))

CSub ==
    \E other \in ScalarOperands :
        KeepComplex("csub", <<cx, other>>, Ok(ComplexSub(cx, other)))

CMul ==
    \E other \in ScalarOperands \cup {conjugate(cx)} :
        KeepComplex("cmul", <<cx, other>>, Ok(ComplexMul(cx, other)))

CDiv ==
    \E other \in ScalarOperands :
        Observe("cdiv", <<cx, other>>, ComplexDiv(cx, other))

Conjugate == KeepComplex("conjugate", <<cx>>, Ok(conjugate(cx)))

MagnitudeSquared ==
    Observe("magnitude_squared", <<cx>>, Ok(magnitude_squared(cx)))

\* the angles the caller can name: its own, and the one a call returned
AngleOperands ==
    {ang} \cup (IF last.op \in {"normalize", "as_degrees"}
                THEN {last.out.val} ELSE {})

ToDegrees ==
    \E x \in AngleOperands :
        Observe("to_degrees", <<x>>, Ok(to_degrees(x)))

AsDegrees ==
    \E x \in AngleOperands :
        Observe("as_degrees", <<x>>, Ok(as_degrees(x)))

Normalize ==
    \E x \in AngleOperands :
        Observe("normalize", <<x>>, Ok(AngleNormalize(x)))

ScalarNext ==
    \/ CAdd
    \/ CSub
    \/ CMul
    \/ CDiv
    \/ Conjugate
    \/ MagnitudeSquared
    \/ ToDegrees
    \/ AsDegrees
    \/ Normalize

SpecScalar == ScalarInit /\ [][ScalarNext]_vars

\* ------------------------------------------ is_unitary and normalize
\* the caller starts with a matrix or with a vector of f64 components
FloatInit ==
    /\ last = Call("init", <<>>, Panic)
    /\ steps = 0
    /\ TextIdle
    /\ ScalarIdle
    /\ \/ m \in FloatMatrices /\ v = VectorZeros(0)
       \/ m = MatrixZeros(0, 0) /\ v \in FloatVectors

IsUnitary == Observe("is_unitary", <<m>>, Ok(is_unitary(m)))

IsZero == Observe("is_zero", <<v>>, Ok(is_zero(v)))

Norm == Observe("norm", <<v>>, Ok(norm(v)))

VNormalize == KeepVector("normalize", <<v>>, VectorNormalize(v))

FloatNext ==
    \/ IsUnitary
    \/ IsZero
    \/ Norm
    \/ VNormalize

SpecFloat == FloatInit /\ [][FloatNext]_vars

\* ------------------------------------------------- the example driver
\* examples/matrix.rs: main builds a matrix and a vector, calls mul_vector,
\* prints the matrix and asserts two of its entries.  The driver is run with
\* its own literals and with the other data a caller passes.
ExampleMatrix ==
    Matrix(2, 2, <<Complex(2, 0), Complex(3, 0), Complex(1, 0), Complex(4, 0)>>)

ExampleVector == <<Complex(1, 0), Complex(2, 0)>>

DriverMatrices ==
    {ExampleMatrix} \cup { Matrix(r, c, OwnData(r * c)) : r \in Dims, c \in Dims }

DriverVectors == {ExampleVector} \cup InputVectors

ExampleInit ==
    /\ LinIdle
    /\ z = NoComplex
    /\ text = <<>>
    /\ parts = <<>>
    /\ parsed = NotParsed
    /\ pc = "main"
    /\ ScalarIdle

\* a step of main: the text and scalar values are not its own
DriverStep(from, to) ==
    /\ pc = from
    /\ pc' = to
    /\ steps' = steps
    /\ UNCHANGED <<z, text, parts, parsed>>
    /\ UNCHANGED scalvars

\* let mut matrix = Matrix::new(2, 2, vec![...])
ExNewMatrix ==
    \E x \in DriverMatrices :
        /\ DriverStep("main", "matrix")
        /\ last' = Call("new", <<x.rows, x.cols, x.data>>,
                        MatrixNew(x.rows, x.cols, x.data))
        /\ m' = last'.out.val
        /\ v' = v

\* let vector = ComplexVector::new(vec![...])
ExNewVector ==
    \E x \in DriverVectors :
        /\ DriverStep("matrix", "vector")
        /\ last' = Call("vnew", <<x>>, Ok(VectorNew(x)))
        /\ v' = last'.out.val
        /\ m' = m

\* matrix.mul_vector(&vector); the vector it returns is dropped
ExMulVector ==
    LET out == mul_vector(m, v)
    IN  /\ DriverStep("vector", IF out.ok THEN "called" ELSE "panicked")
        /\ last' = Call("mul_vector", <<m, v>>, out)
        /\ UNCHANGED <<m, v>>

\* println!("{:?}", matrix)
ExPrintln ==
    /\ DriverStep("called", "printed")
    /\ UNCHANGED <<m, v, last>>

\* assert_eq!(matrix.get(0, 0), &Complex::new(8.0, 0.0));
\* assert_eq!(matrix.get(1, 0), &Complex::new(9.0, 0.0));
ExAsserts ==
    LET first == MatrixGet(m, 0, 0)
        second == MatrixGet(m, 1, 0)
        passed == /\ first = Ok(Complex(8, 0))
                  /\ second = Ok(Complex(9, 0))
    IN  /\ DriverStep("printed", IF passed THEN "done" ELSE "panicked")
        /\ last' = IF first = Ok(Complex(8, 0))
                   THEN Call("get", <<m, 1, 0>>, second)
                   ELSE Call("get", <<m, 0, 0>>, first)
        /\ UNCHANGED <<m, v>>

ExampleNext ==
    \/ ExNewMatrix
    \/ ExNewVector
    \/ ExMulVector
    \/ ExPrintln
    \/ ExAsserts

SpecExample == ExampleInit /\ [][ExampleNext]_vars

\* ========================================================== the claims
\* ------------------------------------------------------------------- C1
WellFormed(x) == Len(x.data) = x.rows * x.cols

MatrixOps ==
    {"new", "zeros", "identity", "set", "add", "sub", "neg", "mul",
     "conjugate_transpose"}

\* C1: after any sequence of Matrix operations every Matrix that exists (the
\* caller's, the operands of the last call, the matrix the last call
\* returned) has data.len() = rows * cols; and new(rows, cols, data)
\* succeeds exactly when data.len() = rows * cols, returning no matrix otherwise.
C1_DataLenIsRowsTimesCols ==
    /\ WellFormed(m)
    /\ (last.op \in MatrixOps /\ last.out.ok) =>
           WellFormed(last.out.val) /\ m = last.out.val
    /\ last.op \in {"add", "sub", "mul"} =>
           WellFormed(last.args[1]) /\ WellFormed(last.args[2])
    /\ last.op = "new" =>
           IF Len(last.args[3]) = last.args[1] * last.args[2]
           THEN last.out.ok
           ELSE last.out = Panic

\* a matrix produced by an earlier call survives a new() that fails
C1_Witness ==
    /\ steps = 2
    /\ last.op = "new"
    /\ last.out = Panic
    /\ Len(last.args[3]) = last.args[1] * last.args[2] + 1
    /\ m.rows = 2
    /\ m.cols = 2
    /\ m.data[1] = Complex(0, 0)

\* ------------------------------------------------------------------- C2
\* entry (i, j) of a matrix, rows and columns counted from 0
Entry(a, i, j) == a.data[i * a.cols + j + 1]

RECURSIVE SumOver(_, _)
SumOver(f, S) ==
    IF S = {} THEN 0
    ELSE LET x == CHOOSE y \in S : TRUE
         IN  f[x] + SumOver(f, S \ {x})

\* sum over t of A[i][t] * B[t][j], the product being (ac - bd, ad + bc)
ProductEntry(a, b, i, j) ==
    LET T == 0..(a.cols - 1)
    IN  Complex(
          SumOver([t \in T |-> Entry(a, i, t).real * Entry(b, t, j).real
                               - Entry(a, i, t).imag * Entry(b, t, j).imag], T),
          SumOver([t \in T |-> Entry(a, i, t).real * Entry(b, t, j).imag
                               + Entry(a, i, t).imag * Entry(b, t, j).real], T))

\* C2: &A * &B fails when A.cols # B.rows; otherwise it returns the matrix of
\* A.rows rows and B.cols columns whose entry (i, j) is the sum over t of
\* A[i][t] * B[t][j] (every entry Complex(0, 0) when A.cols = 0).
C2_ProductIsRowByColumn ==
    last.op = "mul" =>
        LET a == last.args[1]
            b == last.args[2]
        IN  IF a.cols # b.rows THEN last.out = Panic
            ELSE /\ last.out.ok
                 /\ last.out.val.rows = a.rows
                 /\ last.out.val.cols = b.cols
                 /\ Len(last.out.val.data) = a.rows * b.cols
                 /\ \A i \in 0..(a.rows - 1), j \in 0..(b.cols - 1) :
                        Entry(last.out.val, i, j) = ProductEntry(a, b, i, j)

\* a product of two 2 by 2 matrices, the left one itself the result of a call
C2_Witness ==
    /\ steps = 2
    /\ last.op = "mul"
    /\ last.out.ok
    /\ last.args[1].rows = 2
    /\ last.args[1].cols = 2
    /\ last.args[2].cols = 2
    /\ Entry(last.out.val, 1, 0).imag # 0

\* ------------------------------------------------------------------- C3
\* C3: a vector +, - or inner_product of unequal dimensions, a matrix + or -
\* of unequal rows or cols, a product with self.cols # other.rows and a
\* mul_vector with cols # dimension return nothing at all (no value, whole
\* or partial), and leave the caller's matrix and vector as they were.
C3_MismatchReturnsNothing ==
    /\ (last.op \in {"vadd", "vsub", "inner_product"}
           /\ Len(last.args[1]) # Len(last.args[2])) =>
          last.out = Panic /\ v = last.args[1]
    /\ (last.op \in {"add", "sub"}
           /\ (last.args[1].rows # last.args[2].rows
                   \/ last.args[1].cols # last.args[2].cols)) =>
          last.out = Panic /\ m = last.args[1]
    /\ (last.op = "mul" /\ last.args[1].cols # last.args[2].rows) =>
          last.out = Panic /\ m = last.args[1]
    /\ (last.op = "mul_vector" /\ last.args[1].cols # Len(last.args[2])) =>
          last.out = Panic /\ m = last.args[1] /\ v = last.args[2]

\* 1 by 2 plus 2 by 1: the shapes differ and the data lengths do not
C3_Witness ==
    /\ last.op = "add"
    /\ last.args[1].rows = 1
    /\ last.args[1].cols = 2
    /\ last.args[2].rows = 2
    /\ last.args[2].cols = 1
    /\ last.out = Panic

\* ------------------------------------------------------------------- C4
IsSign(c) == c \in {"+", "-"}


\* a numeral: a decimal float literal, optional exponent, no sign of its own
IsNumeral(s) == s # <<>> /\ ParseNumber(s, FALSE).ok
NumeralValue(s) == ParseNumber(s, FALSE).val

\* <real>: a numeral, or a sign and a numeral
IsRealLiteral(s) ==
    /\ s # <<>>
    /\ IF IsSign(s[1]) THEN IsNumeral(Tail(s)) ELSE IsNumeral(s)

RealLiteralValue(s) ==
    IF s[1] = "-" THEN F64Neg(NumeralValue(Tail(s)))
    ELSE IF s[1] = "+" THEN NumeralValue(Tail(s))
    ELSE NumeralValue(s)

\* <sign><imag>i, the numeral <imag> absent or not; the sign may be absent
\* only where signOptional says so
IsImaginaryLiteral(t, signOptional) ==
    /\ t # <<>>
    /\ t[Len(t)] = "i"
    /\ LET body   == SubSeq(t, 1, Len(t) - 1)
           signed == body # <<>> /\ IsSign(body[1])
           num    == IF signed THEN Tail(body) ELSE body
       IN  /\ signOptional \/ signed
           /\ num = <<>> \/ IsNumeral(num)

ImaginaryLiteralValue(t) ==
    LET body   == SubSeq(t, 1, Len(t) - 1)
        signed == body # <<>> /\ IsSign(body[1])
        num    == IF signed THEN Tail(body) ELSE body
        mag    == IF num = <<>> THEN One ELSE NumeralValue(num)
    IN  IF signed /\ body[1] = "-" THEN F64Neg(mag) ELSE mag

\* s is <real> (its first p characters) followed by <sign><imag>i (the rest),
\* one of the two at least being there; "3i" and "i" are of the form: where
\* there is no <real> the sign may be absent
InForm(s, p) ==
    LET r == SubSeq(s, 1, p)
        t == SubSeq(s, p + 1, Len(s))
    IN  /\ s # <<>>
        /\ r = <<>> \/ IsRealLiteral(r)
        /\ t = <<>> \/ IsImaginaryLiteral(t, r = <<>>)

FormValue(s, p) ==
    LET r == SubSeq(s, 1, p)
        t == SubSeq(s, p + 1, Len(s))
    IN  Complex(IF r = <<>> THEN Zero ELSE RealLiteralValue(r),
                IF t = <<>> THEN Zero ELSE ImaginaryLiteralValue(t))

\* C4: every string of the form [<real>][<sign><imag>i] parses, to
\* Complex(real, or 0 without <real>; sign * imag, or sign * 1 without the
\* numeral, or 0 without the imaginary term): "2+3i" is (2, 3), "-1.5-2.5i"
\* is (-1.5, -2.5), "3i" is (0, 3), "-i" is (0, -1), "i" is (0, 1), "5" is (5, 0).
C4_GrammarParses ==
    pc = "done" =>
        /\ \A p \in 0..Len(text) :
               InForm(text, p) => parsed = FromStrOk(FormValue(text, p))
        /\ text = <<"2", "+", "3", "i">> =>
               parsed = FromStrOk(Complex(F64Of(2), F64Of(3)))
        /\ text = <<"-", "1", ".", "5", "-", "2", ".", "5", "i">> =>
               parsed = FromStrOk(Complex(F64(TRUE, 15, -1), F64(TRUE, 25, -1)))
        /\ text = <<"3", "i">> => parsed = FromStrOk(Complex(Zero, F64Of(3)))
        /\ text = <<"-", "i">> => parsed = FromStrOk(Complex(Zero, F64Of(-1)))
        /\ text = <<"i">> => parsed = FromStrOk(Complex(Zero, One))
        /\ text = <<"5">> => parsed = FromStrOk(Complex(F64Of(5), Zero))

\* both parts, each with a sign and a point
C4_Witness ==
    /\ pc = "done"
    /\ text = <<"-", "1", ".", "5", "-", "2", ".", "5", "i">>
    /\ InForm(text, 4)
    /\ parsed.ok

\* ------------------------------------------------------------------- C5
\* C5: from_str returns the error "Empty string" exactly on the inputs that
\* are empty once the surrounding whitespace is trimmed; every other error
\* is an "Invalid real part" or an "Invalid imaginary part".
C5_EmptyStringError ==
    pc = "done" =>
        /\ (\A k \in 1..Len(text) : text[k] \in Whitespace)
              <=> (~parsed.ok /\ parsed.err = "Empty string")
        /\ ~parsed.ok =>
              parsed.err \in {"Empty string", "Invalid real part",
                              "Invalid imaginary part"}

\* an input of whitespace alone
C5_Witness ==
    /\ pc = "done"
    /\ text = <<" ", " ">>
    /\ parsed = FromStrErr("Empty string", "")

\* ------------------------------------------------------------------- C6
RECURSIVE Concat(_)
Concat(ss) == IF ss = <<>> THEN <<>> ELSE Head(ss) \o Concat(Tail(ss))

\* where term n starts in the concatenation of the terms
PartStart(ps, n) == 1 + Len(Concat(SubSeq(ps, 1, n - 1)))

\* C6: the terms of the split are non-empty, in order they make up the
\* trimmed input, and a term starts at the first character and at each '+'
\* or '-' that does not follow an 'e' or an 'E', nowhere else:
\* "1e-5+2E+3i" splits into "1e-5" and "+2E+3i".
C6_SplitAtSignsOutsideExponents ==
    parts # <<>> =>
        LET s == trim(text)
        IN  /\ Concat(parts) = s
            /\ \A n \in 1..Len(parts) : parts[n] # <<>>
            /\ { PartStart(parts, n) : n \in 1..Len(parts) }
                 = {1} \cup { p \in 2..Len(s) :
                                IsSign(s[p]) /\ s[p - 1] \notin {"e", "E"} }
            /\ text = <<"1", "e", "-", "5", "+", "2", "E", "+", "3", "i">> =>
                 parts = << <<"1", "e", "-", "5">>,
                            <<"+", "2", "E", "+", "3", "i">> >>

\* the example of the claim, split
C6_Witness ==
    /\ pc = "parts"
    /\ text = <<"1", "e", "-", "5", "+", "2", "E", "+", "3", "i">>
    /\ Len(parts) = 2

\* ------------------------------------------------------------------- C7
\* the terms from_str works on: those of the split or, on the two paths
\* that do not split, the trimmed input itself
Terms == IF parts # <<>> THEN parts ELSE << trim(text) >>

EndsInI(t) == t # <<>> /\ t[Len(t)] = "i"
ContainsI(t) == \E k \in 1..Len(t) : t[k] = "i"

\* the numeric text of a term: an imaginary term without its trailing 'i'
\* (nothing and a bare sign are the coefficients 1 and -1, not malformed)
MalformedTerm(t, imaginary) ==
    IF imaginary
    THEN LET num == TrimEndMatches(t, {"i"})
         IN  num \notin {<<>>, <<"+">>, <<"-">>} /\ ~ParseF64(num).ok
    ELSE ~ParseF64(t).ok

BadTerms(ts, IsImag(_)) ==
    { n \in 1..Len(ts) : MalformedTerm(ts[n], IsImag(ts[n])) }

Min(S) == CHOOSE x \in S : \A y \in S : x <= y
Max(S) == CHOOSE x \in S : \A y \in S : x >= y

\* with a malformed term, from_str returns an error, named after the kind of
\* the first malformed term
ErrorNamesPart(ts, IsImag(_)) ==
    LET bad == BadTerms(ts, IsImag)
    IN  bad # {} =>
          /\ ~parsed.ok
          /\ parsed.err = IF IsImag(ts[Min(bad)])
                          THEN "Invalid imaginary part"
                          ELSE "Invalid real part"

TermValue(t) == IF ContainsI(t) THEN ImaginaryValue(t).val ELSE ParseF64(t).val

\* C8: with several real terms or several imaginary terms, all well formed,
\* from_str succeeds; the real part is the value of the last real term and
\* the imaginary part that of the last imaginary term, 0 where there is no
\* term of the kind: "1+2+3i" is (2, 3).
C8_LastTermOfEachKindWins ==
    (pc = "done" /\ parts # <<>> /\ BadTerms(parts, ContainsI) = {}) =>
        LET reals == { n \in 1..Len(parts) : ~ContainsI(parts[n]) }
            imags == { n \in 1..Len(parts) : ContainsI(parts[n]) }
        IN  /\ parsed = FromStrOk(Complex(
                   IF reals = {} THEN Zero ELSE TermValue(parts[Max(reals)]),
                   IF imags = {} THEN Zero ELSE TermValue(parts[Max(imags)])))
            /\ text = <<"1", "+", "2", "+", "3", "i">> =>
                   parsed = FromStrOk(Complex(F64Of(2), F64Of(3)))

\* two real terms and two imaginary terms: 1+2i-3+i is (-3, 1)
C8_Witness ==
    /\ pc = "done"
    /\ text = <<"1", "+", "2", "i", "-", "3", "+", "i">>
    /\ Len(parts) = 4
    /\ parsed = FromStrOk(Complex(F64Of(-3), One))

\* ------------------------------------------------------------------- C9
\* the input has an 'i' and no sign after its first character
PureImaginaryInput(s) ==
    /\ ContainsI(s)
    /\ \A k \in 2..Len(s) : ~IsSign(s[k])

\* what the claim says of such an input, the text before the 'i' being the
\* input without its trailing 'i'; plusIsOne adds the bare '+'
PureImaginaryResult(s, plusIsOne) ==
    LET before == TrimEndMatches(s, {"i"})
    IN  IF before = <<>> \/ (plusIsOne /\ before = <<"+">>)
        THEN FromStrOk(Complex(Zero, One))
        ELSE IF before = <<"-">> THEN FromStrOk(Complex(Zero, F64Of(-1)))
        ELSE IF ParseF64(before).ok
             THEN FromStrOk(Complex(Zero, ParseF64(before).val))
        ELSE FromStrErr("Invalid imaginary part", InvalidFloat)

\* C9 as claimed: an input with an 'i' and no sign after its first character
\* is (0, c): c is 1.0 when the text before the 'i' is empty, -1.0 when it is
\* a bare '-', otherwise that text parsed as a float, and an "Invalid
\* imaginary part" error when it is no float.
C9_PureImaginary ==
    (pc = "done" /\ PureImaginaryInput(trim(text))) =>
        parsed = PureImaginaryResult(trim(text), FALSE)

\* C9 amended: the same, c being 1.0 also when the text before the 'i' is a
\* bare '+'.
C9_PureImaginaryOrBarePlus ==
    (pc = "done" /\ PureImaginaryInput(trim(text))) =>
        parsed = PureImaginaryResult(trim(text), TRUE)

\* "+i" is (0, 1)
C9_Witness ==
    /\ pc = "done"
    /\ text = <<"+", "i">>
    /\ parsed = FromStrOk(Complex(Zero, One))

\* ------------------------------------------------------------------ C10
\* C10: the Debug rendering of Complex(real, imag) is the real part alone
\* when imag == 0.0; otherwise the real part, one sign character ('+' for a
\* non-negative imag, '-' for a negative one), |imag| and 'i': (3, 4) is
\* "3+4i", (3, -4) is "3-4i", (3, 0) is "3", (0, 4) is "0+4i", (0, 0) is "0".
C10_DebugRendering ==
    (pc # "value" /\ z # NoComplex) =>
        /\ IF F64IsZero(z.imag) THEN text = FmtF64(z.real)
           ELSE \E sign \in (IF F64GeZero(z.imag) THEN {"+"}
                             ELSE IF F64Negative(z.imag) THEN {"-"}
                             ELSE {"+", "-"}) :
                    text = FmtF64(z.real) \o <<sign>>
                             \o FmtF64(F64Abs(z.imag)) \o <<"i">>
        /\ z = Complex(F64Of(3), F64Of(4)) => text = <<"3", "+", "4", "i">>
        /\ z = Complex(F64Of(3), F64Of(-4)) => text = <<"3", "-", "4", "i">>
        /\ z = Complex(F64Of(3), Zero) => text = <<"3">>
        /\ z = Complex(Zero, F64Of(4)) => text = <<"0", "+", "4", "i">>
        /\ z = Complex(Zero, Zero) => text = <<"0">>

\* ------------------------------------------------------------------ C11
\* C11: over integer components, subtracting w from z + w gives back z, and
\* z times its conjugate is Complex(magnitude_squared(z), 0).
C11_AddSubAndConjugateProduct ==
    [][ /\ ( /\ last.op = "cadd"
             /\ last'.op = "csub"
             /\ last'.args = <<last.out.val, last.args[2]>> )
           => last'.out.val = last.args[1]
        /\ ( /\ last'.op = "cmul"
             /\ last'.args[2] = conjugate(last'.args[1]) )
           => last'.out.val =
                  Complex(magnitude_squared(last'.args[1]), 0)
      ]_vars

\* w has been subtracted from a sum z + w, w with both components non-zero
C11_Witness ==
    /\ steps = 2
    /\ last.op = "csub"
    /\ last.args[2] = Complex(2, -1)
    /\ last.args[1] = ComplexAdd(cx, last.args[2])
    /\ cx.real # 0
    /\ cx.imag # 0

\* ------------------------------------------------------------------ C12
\* C12: z / w is z times the conjugate of w, each component divided by
\* d = magnitude_squared(w); the division never fails, and for w = 0 it
\* returns a Complex whose components are NaN or infinite.
NaNOrInfinite(x) == x.k \in {"nan", "inf"}

C12_DivisionNeverFails ==
    last.op = "cdiv" =>
        LET zz == last.args[1]
            ww == last.args[2]
            d == magnitude_squared(ww)
            p == ComplexMul(zz, conjugate(ww))
        IN  /\ last.out.ok
            /\ last.out.val = Complex(F64DivInt(p.real, d), F64DivInt(p.imag, d))
            /\ (ww = Complex(0, 0)) =>
                   /\ NaNOrInfinite(last.out.val.real)
                   /\ NaNOrInfinite(last.out.val.imag)
            /\ (ww # Complex(0, 0)) =>
                   /\ last.out.val.real.k = "quot"
                   /\ last.out.val.imag.k = "quot"
                   /\ last.out.val.real.num * d = p.real * last.out.val.real.den
                   /\ last.out.val.imag.num * d = p.imag * last.out.val.imag.den

\* a non-zero z has been divided by zero
C12_Witness ==
    /\ last.op = "cdiv"
    /\ last.args[1] = Complex(1, -2)
    /\ last.args[2] = Complex(0, 0)
    /\ last.out.ok
    /\ last.out.val = Complex(F64NaN, F64NaN)

\* ------------------------------------------------------------------ C13
\* 0 <= x < 360
InTurn(x) ==
    /\ x.k = "bin"
    /\ ~F64LtZero(x)
    /\ x.int < 360 \/ (x.int = 360 /\ x.tiny < 0)

\* x is y plus a whole number of turns, rounded to f64
CongruentMod360(x, y) ==
    /\ x.k = "bin"
    /\ y.k = "bin"
    /\ (x.int - y.int) % 360 = 0
    /\ x = RoundBin(x.int, y.tiny, y.exp)

Finite(x) == x.k \in {"bin", "pi"}

\* C13: for every Angle x of a finite value, x.normalize() is a Degree whose
\* value v has 0 <= v < 360 and is congruent to x.to_degrees() modulo 360; a
\* value exactly divisible by 360 normalizes to 0.
C13_NormalizeInTurn ==
    (last.op = "normalize" /\ Finite(last.args[1].val)) =>
        LET degrees == to_degrees(last.args[1])
            result == last.out.val
        IN  /\ result.tag = "Degree"
            /\ InTurn(result.val)
            /\ CongruentMod360(result.val, degrees)
            /\ (degrees.tiny = 0 /\ degrees.int % 360 = 0) =>
                   result.val = Bin(0, 0, 0)

\* ------------------------------------------------------------------ C14
\* C14: normalizing the result of normalize gives an equal Angle, and
\* normalize leaves the Angle it is applied to as it was.
C14_NormalizeIdempotentAndPure ==
    [][ last'.op = "normalize" =>
            /\ ang' = ang
            /\ ( /\ last.op = "normalize"
                 /\ Finite(last.args[1].val)
                 /\ last'.args[1] = last.out.val )
               => AngleEq(last'.out.val, last.out.val)
      ]_vars

\* ------------------------------------------------------------------ C15
\* n by n, Complex(1, 0) on the diagonal and Complex(0, 0) elsewhere
IsIdentity(x, n) ==
    /\ x.rows = n
    /\ x.cols = n
    /\ Len(x.data) = n * n
    /\ \A i \in 0..(n - 1), j \in 0..(n - 1) :
           Entry(x, i, j) = IF i = j THEN Complex(1, 0) ELSE Complex(0, 0)

IsConjugateTranspose(x, y) ==
    /\ x.rows = y.cols
    /\ x.cols = y.rows
    /\ Len(x.data) = y.rows * y.cols
    /\ \A i \in 0..(y.rows - 1), j \in 0..(y.cols - 1) :
           /\ Entry(x, j, i).real = Entry(y, i, j).real
           /\ Entry(x, j, i).imag = -Entry(y, i, j).imag

\* C16: conjugate_transpose(M) has the dimensions of M swapped and its
\* entry (j, i) is conjugate(M[i][j]); applying it twice gives back M, for
\* square, non-square and empty matrices alike.
C16_ConjugateTransposeInvolution ==
    [][ last'.op = "conjugate_transpose" =>
            /\ last'.out.ok
            /\ IsConjugateTranspose(last'.out.val, last'.args[1])
            /\ ( /\ last.op = "conjugate_transpose"
                 /\ last'.args[1] = last.out.val )
               => last'.out.val = last.args[1]
      ]_vars

\* the conjugate transpose of a 1 by 2 matrix, itself a conjugate transpose
C16_Witness ==
    /\ steps = 2
    /\ last.op = "conjugate_transpose"
    /\ last.args[1].rows = 1
    /\ last.args[1].cols = 2
    /\ last.out.val.rows = 2
    /\ last.out.val.cols = 1
    /\ IsConjugateTranspose(last.args[1], last.out.val)
    /\ Entry(last.out.val, 1, 0).imag # 0

\* ------------------------------------------------------------------ C17
FiniteComplex(x) == x.real.k = "fin" /\ x.imag.k = "fin"

\* magnitude(x) <= 1e-10
WithinTolerance(x) ==
    /\ magnitude(x).k # "nan"
    /\ ~F64Gt(magnitude(x), Tolerance)

\* C17: is_unitary is false for every matrix with rows # cols; for a square
\* matrix M of finite components it is true exactly when every entry of
\* M * conjugate_transpose(M) differs from the entry of the identity matrix
\* by a complex number of magnitude at most 1e-10.
C17_UnitaryWithinTolerance ==
    last.op = "is_unitary" =>
        LET x == last.args[1]
            n == x.rows
            product == MatrixMulF64(x, conjugate_transposeF64(x))
        IN  /\ x.rows # x.cols => last.out.val = FALSE
            /\ ( /\ x.rows = x.cols
                 /\ \A k \in 1..Len(x.data) : FiniteComplex(x.data[k]) )
               => ( last.out.val = TRUE <=>
                      \A i \in 0..(n - 1), j \in 0..(n - 1) :
                          WithinTolerance(ComplexSubF64(
                              MatrixGet(product, i, j).val,
                              MatrixGet(identityF64(n), i, j).val)) )

\* ------------------------------------------------------------------ C18
\* f[1] + ... + f[n]
RECURSIVE SumTo(_, _)
SumTo(f, n) == IF n = 0 THEN 0 ELSE f[n] + SumTo(f, n - 1)

\* the sum over i of x[i] * conjugate(y[i]), written out in components
ConjugateSecondSum(x, y) ==
    LET n == Len(x)
    IN  Complex(SumTo([i \in 1..n |-> x[i].real * y[i].real
                                        + x[i].imag * y[i].imag], n),
                SumTo([i \in 1..n |-> x[i].imag * y[i].real
                                        - x[i].real * y[i].imag], n))

\* the vector c * x
Scaled(c, x) == [k \in 1..Len(x) |-> ComplexMul(c, x[k])]

\* C18: for vectors v and w of equal dimension n, v.inner_product(&w) is
\* the sum over i in 0..n of v[i] * conjugate(w[i]), Complex(0, 0) for n = 0;
\* it is linear in the first argument and conjugate-linear in the second.
C18_InnerProductConjugatesSecond ==
    ( /\ last.op = "inner_product"
      /\ Len(last.args[1]) = Len(last.args[2]) )
    => LET x == last.args[1]
           y == last.args[2]
       IN  /\ last.out = Ok(ConjugateSecondSum(x, y))
           /\ Len(x) = 0 => last.out.val = Complex(0, 0)
           /\ \A c \in InputValues :
                  /\ inner_product(Scaled(c, x), y)
                        = Ok(ComplexMul(c, last.out.val))
                  /\ inner_product(x, Scaled(c, y))
                        = Ok(ComplexMul(conjugate(c), last.out.val))
           /\ \A w \in InputVectors :
                  Len(w) = Len(x) =>
                      /\ inner_product(VectorAdd(x, w).val, y)
                            = Ok(ComplexAdd(last.out.val,
                                            inner_product(w, y).val))
                      /\ inner_product(x, VectorAdd(y, w).val)
                            = Ok(ComplexAdd(last.out.val,
                                            inner_product(x, w).val))

\* an inner product of two vectors of dimension 2 that is not real, so that
\* conjugating the other argument would change it
C18_Witness ==
    /\ last.op = "inner_product"
    /\ Len(last.args[1]) = 2
    /\ Len(last.args[2]) = 2
    /\ last.args[1] # last.args[2]
    /\ last.out = Ok(ConjugateSecondSum(last.args[1], last.args[2]))
    /\ last.out.val.imag # 0

\* ------------------------------------------------------------------ C19
\* | norm(x) - 1 | <= 1e-10
NormIsOne(x) ==
    /\ norm(x).k = "fin"
    /\ ~F64Gt(F64Sub(norm(x), One), Tolerance)
    /\ ~F64Gt(F64Sub(One, norm(x)), Tolerance)

\* C19: normalize fails for every vector whose components are all zero, the
\* vector of dimension 0 among them; for every other vector of finite
\* components it returns a vector of the same dimension, each component
\* divided by norm(), whose norm is 1 within 1e-10.
C19_NormalizeGivesUnitNorm ==
    ( /\ last.op = "normalize"
      /\ \A k \in 1..Len(last.args[1]) : FiniteComplex(last.args[1][k]) )
    => LET x == last.args[1]
       IN  IF is_zero(x)
           THEN last.out = Panic
           ELSE /\ last.out.ok
                /\ Len(last.out.val) = Len(x)
                /\ \A k \in 1..Len(x) :
                       last.out.val[k] = ComplexDivScalar(x[k], norm(x))
                /\ NormIsOne(last.out.val)

\* ------------------------------------------------------------------ C20
\* the sum over j in 0..c of M[i][j] * x[j], written out in components
RowTimesVector(M, x, i) ==
    LET c == M.cols
        e == [j \in 1..c |-> M.data[i * c + j]]
    IN  Complex(SumTo([j \in 1..c |-> e[j].real * x[j].real
                                        - e[j].imag * x[j].imag], c),
                SumTo([j \in 1..c |-> e[j].real * x[j].imag
                                        + e[j].imag * x[j].real], c))

\* C20: M.mul_vector(&v) fails unless M.cols = v.dimension(); on success
\* it returns a vector of dimension M.rows whose component i is the sum
\* over j in 0..M.cols of M[i][j] * v[j].
C20_MulVectorRowSums ==
    last.op = "mul_vector" =>
        LET M == last.args[1]
            x == last.args[2]
        IN  IF M.cols # Len(x)
            THEN last.out = Panic
            ELSE /\ last.out.ok
                 /\ Len(last.out.val) = M.rows
                 /\ \A i \in 0..(M.rows - 1) :
                        last.out.val[i + 1] = RowTimesVector(M, x, i)

\* a 2 by 2 matrix applied to a vector of dimension 2
C20_Witness ==
    /\ last.op = "mul_vector"
    /\ last.args[1].rows = 2
    /\ last.args[1].cols = 2
    /\ Len(last.args[2]) = 2
    /\ last.out.ok
    /\ Len(last.out.val) = 2
    /\ last.out.val[2] = RowTimesVector(last.args[1], last.args[2], 1)
    /\ last.out.val[1] # last.out.val[2]

\* ------------------------------------------------------------------ C23
\* the index pair of a get or set call
InRange(x, row, col) == row < x.rows /\ col < x.cols

\* C23: get(row, col) and set(row, col, value) fail on every index pair
\* with row >= rows or col >= cols, so that every access that does not
\* fail refers to the element of that row and column.
C23_OutOfRangeFails ==
    last.op \in {"get", "set"} =>
        LET x == last.args[1]
            row == last.args[2]
            col == last.args[3]
        IN  /\ ~InRange(x, row, col) => last.out = Panic
            /\ ( last.out.ok /\ last.op = "get" )
                  => last.out.val = Entry(x, row, col)

\* ------------------------------------------------------------------ C21
\* the calls that take their operands by reference and return a scalar
ReadOnlyOps == {"get", "inner_product"}

VectorOps == {"vadd", "vsub", "mul_vector"}

AfterMulVector == pc \in {"called", "printed", "done"}

\* C22: after the driver's call of mul_vector(&vector) the matrix itself
\* holds the product, get(i, 0) being the sum over j of old[i][j] * vector[j]
\* (Complex(8,0) and Complex(9,0) for the matrix [[2,3],[1,4]] and the
\* vector (1,2)), and the driver never fails an assertion.
C22_DriverMatrixHoldsProduct ==
    /\ ( AfterMulVector /\ m.rows > 0 /\ m.cols > 0 ) =>
           \A i \in 0..(m.rows - 1) :
               MatrixGet(m, i, 0) = Ok(RowTimesVector(m, v, i))
    /\ ( AfterMulVector /\ m = ExampleMatrix /\ v = ExampleVector ) =>
           /\ MatrixGet(m, 0, 0) = Ok(Complex(8, 0))
           /\ MatrixGet(m, 1, 0) = Ok(Complex(9, 0))
    /\ ( m = ExampleMatrix /\ v = ExampleVector ) => pc # "panicked"

\* ------------------------------------------------------------------ C25
\* C25: for vectors v and w of equal dimension over integer components,
\* v.inner_product(&v) is Complex(v.norm_squared(), 0) and
\* v.inner_product(&w) is the conjugate of w.inner_product(&v).
C25_InnerProductHermitian ==
    ( last.op = "inner_product" /\ last.out.ok ) =>
        LET x == last.args[1]
            y == last.args[2]
        IN  /\ last.out.val = conjugate(inner_product(y, x).val)
            /\ inner_product(x, x) = Ok(Complex(NormSquaredExact(x), 0))
            /\ inner_product(y, y) = Ok(Complex(NormSquaredExact(y), 0))

\* an inner product of two different vectors of dimension 2, not real, each
\* of them of positive squared norm
C25_Witness ==
    /\ last.op = "inner_product"
    /\ last.out.ok
    /\ Len(last.args[1]) = 2
    /\ last.args[1] # last.args[2]
    /\ last.out.val.imag # 0
    /\ last.out.val # inner_product(last.args[2], last.args[1]).val
    /\ NormSquaredExact(last.args[1]) > 0
    /\ inner_product(last.args[1], last.args[1]).val.real
          = NormSquaredExact(last.args[1])

\* ------------------------------------------------------------------ C24
\* the caller rendered z and parsed the rendering
RoundTripDone == pc = "done" /\ z # NoComplex

\* C24: for every Complex z with finite components, parsing the Debug
\* rendering of z succeeds and yields a Complex equal to z.
C24_RenderParseRoundTrip ==
    ( RoundTripDone /\ FiniteComplex(z) ) =>
        /\ parsed.ok
        /\ F64Eq(parsed.val.real, z.real)
        /\ F64Eq(parsed.val.imag, z.imag)

\* a z with a negative fractional real part and a negative imaginary part,
\* rendered and parsed back
C24_Witness ==
    /\ RoundTripDone
    /\ z.real.k = "fin"
    /\ z.real.neg
    /\ z.real.exp10 < 0
    /\ z.imag.k = "fin"
    /\ z.imag.neg
    /\ z.imag.mant > 0
    /\ text = ComplexDebug(z)
    /\ parsed = FromStrOk(z)

\* ------------------------------------------------------------------ C26
ErrorMessages == {"Empty string", "Invalid real part", "Invalid imaginary part"}

\* what from_str returned is a Complex, or an error with one of the three
\* messages and no Complex in it
OkOrError ==
    IF parsed.ok
    THEN /\ DOMAIN parsed = {"ok", "val"}
         /\ DOMAIN parsed.val = {"real", "imag"}
    ELSE /\ DOMAIN parsed = {"ok", "err", "detail"}
         /\ parsed.err \in ErrorMessages

\* how far the caller is: rendering, parsing, parsing the terms, returned
PcRank(p) ==
    CASE p = "value" -> 0
      [] p = "text" -> 1
      [] p = "parts" -> 2
      [] OTHER -> 3

\* the guard of one of the caller's steps holds: from_str takes one of its
\* four ways on every trimmed input
StepGuard ==
    \/ pc = "value"
    \/ /\ pc = "text"
       /\ FromStrBranch(trim(text)) \in {"empty", "real", "imaginary", "split"}
    \/ pc = "parts"

====
